---- MODULE Spec2Model ----
(***************************************************************************)
(* Model of the request-routing core of the planb reverse proxy            *)
(* (src/router.go): snapshot cache with a 2 s TTL, per-host round-robin    *)
(* counters, dead-skipping selection, HTTP forwarding with request timeout *)
(* and dead marking, the WebSocket hijack path, and the debug headers.     *)
(*                                                                         *)
(* Every inbound request is served by its own task (a member of Procs).    *)
(* A task's position in the code is req[p].pc; the shared state is the LRU *)
(* cache, the counter table, the clock and the routes backend.             *)
(***************************************************************************)
EXTENDS Integers, Sequences, FiniteSets, TLC

\* ------------------------------------------------------------------ bounds
NumProcs == 2        \* concurrent request tasks
MaxRequests == 2     \* requests served in one behaviour
MaxBackends == 3     \* the largest backend list the routes backend returns

\* ------------------------------------------------------- program constants
TTL == 2                     \* time.Now().Add(2 * time.Second)
DefaultDeadBackendTTL == 30  \* router.DeadBackendTTL = 30
MaxInt32 == 2147483647       \* the counters are int32
MinInt32 == (-2147483647) - 1
StatusOK == 200
StatusBadRequest == 400
StatusBadGateway == 502
StatusServiceUnavailable == 503

Procs == 1..NumProcs

\* ------------------------------------------------------------ int32 arithmetic
\* atomic.AddInt32(roundRobin, 1): two's complement wrap-around.
AddInt32(c) == IF c = MaxInt32 THEN MinInt32 ELSE c + 1

\* initialNumber - 1 on an int32.
SubInt32(c) == IF c = MinInt32 THEN MaxInt32 ELSE c - 1

\* Go's % on int32: the result has the sign of the dividend (truncated
\* division). n > 0; n = 0 is a run-time panic and never reaches here.
GoRem(a, n) ==
    IF a >= 0 THEN a % n
    ELSE IF a = MinInt32 THEN 0 - (((MaxInt32 % n) + 1) % n)
    ELSE 0 - ((0 - a) % n)

\* ------------------------------------------------------------ request hosts
\* The Host header of a request: a name and an optional port ("" = none).
PingHost == [name |-> "__ping__", port |-> ""]
ReqHosts ==
    { [name |-> "app.example", port |-> ""],
      [name |-> "app.example", port |-> "8080"],
      [name |-> "App.Example", port |-> ""] }

\* host, _, _ := net.SplitHostPort(req.Host): the name when a port is
\* present, "" (an error) when there is none.
SplitHostPort(h) == IF h.port # "" THEN h.name ELSE ""

\* if host == "" { host = req.Host }
HostKey(h) == IF SplitHostPort(h) = "" THEN h.name ELSE SplitHostPort(h)

Keys == { HostKey(h) : h \in ReqHosts }

\* ------------------------------------------------------------- backend URLs
\* The backend list of length n is the first n entries of this pool.
BackendUrl(i) ==
    CASE i = 0 -> "http://a:80"
      [] i = 1 -> "b.internal"
      [] i = 2 -> "%zz"
      [] OTHER -> "http://c:80"

\* url.Parse on the pool: "%zz" is an invalid escape, "b.internal" parses
\* to a path with no scheme and no host.
ParseURL(s) ==
    CASE s = "http://a:80" -> [ok |-> TRUE, scheme |-> "http", host |-> "a:80"]
      [] s = "http://c:80" -> [ok |-> TRUE, scheme |-> "http", host |-> "c:80"]
      [] s = "b.internal"  -> [ok |-> TRUE, scheme |-> "", host |-> ""]
      [] OTHER             -> [ok |-> FALSE, scheme |-> "", host |-> ""]

\* ---------------------------------------------------------------- snapshots
\* backendSet: id, backends (the first n pool entries), dead, expires.
\* The deadline is kept relative to the clock: expiresIn = expires - now,
\* in seconds; every tick of the clock lowers it by one, and below -1 it is
\* not followed further (time.Now().After(expires) holds for good).
NoSet == [valid |-> FALSE, id |-> 0, n |-> 0, dead |-> {}, expiresIn |-> 0]

\* What the routes backend can hold for a host.
Mappings ==
    { [id |-> 1, n |-> n, dead |-> d] : n \in {0}, d \in {{}} } \cup
    UNION { { [id |-> 1, n |-> n, dead |-> d] : d \in SUBSET (0..(n-1)) }
            : n \in 1..MaxBackends }

NoCounter == [present |-> FALSE, val |-> 0]

\* The time of the last Backends call is followed for the hosts whose entry
\* is timed: age is the number of seconds since the call, and TTL stands for
\* "TTL seconds or more ago, or never".
Untimed == [timed |-> FALSE, age |-> 0]
NeverCalled == [timed |-> TRUE, age |-> TTL]

VARIABLES
    cache,       \* router.cache: host -> backendSet (by value)
    roundRobin,  \* router.roundRobin: host -> *int32
    routes,      \* the routes backend's mapping: host -> (id, backends, dead)
    conf,        \* RequestTimeout, markingDisabled
    hosts,       \* the Host header values the clients send
    lastCall,    \* per timed host: seconds since Backends(host) was called
    started,     \* number of requests accepted so far
    req          \* the request each task is serving

vars == <<cache, roundRobin, routes, conf, hosts, lastCall, started, req>>


\* ------------------------------------------------------------ request state
NoRsp == [status |-> 0, body |-> "", hasHeader |-> FALSE, debugHdrs |-> FALSE]

\* A task that serves no request.
IdleReq ==
    [ pc         |-> "idle",
      kind       |-> "none",    \* "ping", "http" or "ws"
      hdrDebug   |-> FALSE,     \* the request carried a non-empty X-Debug-Router
      hdrPresent |-> FALSE,     \* X-Debug-Router is (still) in req.Header
      \* requestData
      host       |-> "",
      debug      |-> FALSE,
      backendLen |-> 0,
      backend    |-> "",
      backendIdx |-> 0,
      backendKey |-> 0,
      \* locals of getBackends / getRequestData
      set        |-> NoSet,
      hit        |-> FALSE,     \* set came from the cache
      counter    |-> 0,         \* value returned by atomic.AddInt32
      initial    |-> 0,         \* initialNumber after the modulo
      res        |-> "none",    \* getRequestData: "ok", "err", "panic"
      err        |-> "",        \* "lookup", "alldead", "badurl", ...
      \* RoundTripWithData
      urlSet     |-> FALSE,     \* req.URL.Scheme # "" and req.URL.Host # ""
      timer      |-> "none",    \* "armed", "flagged", "cancelled", "stopped"
      timedout   |-> 0,
      upstream   |-> 0,         \* calls of Transport.RoundTrip
      upDebug    |-> FALSE,     \* X-Debug-Router was in what went upstream
      rt         |-> "none",    \* "response", "temp", "nontemp", "other"
      cause      |-> "none",    \* "upstream" or "cancel"
      isTimeout  |-> FALSE,
      markAsDead |-> FALSE,
      marks      |-> 0,         \* calls of backend.MarkDead
      markArgs   |-> <<>>,
      \* serveWebsocket
      hijacked   |-> FALSE,
      rwAfterHijack |-> FALSE,  \* http.Error on a hijacked ResponseWriter
      cp         |-> 0,         \* copy loops inside io.Copy
      errc       |-> 0,         \* reports buffered in errc
      snd        |-> 0,         \* copy loops blocked in errc <- err
      \* outcome
      rsp        |-> NoRsp,
      errlog     |-> "",        \* what logError was given
      logged     |-> FALSE,     \* logger.MessageRaw was called
      panicked   |-> FALSE ]

\* ------------------------------------------------------------------ Init
\* Router.Init: an empty cache, an empty counter table.
InitCommon ==
    /\ cache = [h \in Keys |-> NoSet]
    /\ \E m \in Mappings : routes = [h \in Keys |-> m]
    /\ started = 0
    /\ req = [p \in Procs |-> IdleReq]

\* The clients address one host, with and without a port.
OneHost == { h \in ReqHosts : h.name = "app.example" }

Init ==
    /\ InitCommon
    /\ conf \in [RequestTimeout : {0, 100}, markingDisabled : BOOLEAN,
                 DeadBackendTTL : {DefaultDeadBackendTTL}]
    /\ hosts = OneHost
    /\ lastCall = [h \in Keys |-> Untimed]
    /\ roundRobin = [h \in Keys |-> NoCounter]

\* The proxy with a request timeout and marking enabled, and the calls of
\* the routes backend timed.
InitCalls ==
    /\ InitCommon
    /\ conf = [RequestTimeout |-> 100, markingDisabled |-> FALSE,
               DeadBackendTTL |-> DefaultDeadBackendTTL]
    /\ hosts = OneHost
    /\ lastCall = [h \in Keys |-> NeverCalled]
    /\ roundRobin = [h \in Keys |-> NoCounter]

\* A mapping with every backend live.
AllLive == [id |-> 1, n |-> MaxBackends, dead |-> {}]

\* The clients address one host in three spellings: with a port, without,
\* and in another letter case.
InitHosts ==
    /\ cache = [h \in Keys |-> NoSet]
    /\ routes = [h \in Keys |-> AllLive]
    /\ started = 0
    /\ req = [p \in Procs |-> IdleReq]
    /\ conf = [RequestTimeout |-> 100, markingDisabled |-> FALSE,
               DeadBackendTTL |-> DefaultDeadBackendTTL]
    /\ hosts = ReqHosts
    /\ lastCall = [h \in Keys |-> Untimed]
    /\ roundRobin = [h \in Keys |-> NoCounter]

\* The proxy in front of one host whose backends are all live.
InitWs ==
    /\ cache = [h \in Keys |-> NoSet]
    /\ routes = [h \in Keys |-> AllLive]
    /\ started = 0
    /\ req = [p \in Procs |-> IdleReq]
    /\ conf = [RequestTimeout |-> 100, markingDisabled |-> FALSE,
               DeadBackendTTL |-> DefaultDeadBackendTTL]
    /\ hosts = OneHost
    /\ lastCall = [h \in Keys |-> Untimed]
    /\ roundRobin = [h \in Keys |-> NoCounter]

\* The values a counter has around the int32 wrap (after 2^31 requests).
WrapStarts == {MaxInt32, MinInt32}

\* The proxy after a long run: each host's counter either not yet created
\* or close to the int32 wrap.
InitWrap ==
    /\ InitCommon
    /\ conf = [RequestTimeout |-> 100, markingDisabled |-> FALSE,
               DeadBackendTTL |-> DefaultDeadBackendTTL]
    /\ hosts = OneHost
    /\ lastCall = [h \in Keys |-> Untimed]
    /\ \E c \in {NoCounter} \cup { [present |-> TRUE, val |-> v] : v \in WrapStarts } :
          roundRobin = [h \in Keys |-> c]

\* --------------------------------------------------------------- the clock
\* One second passes: every deadline comes one second closer.
Tick ==
    /\ \E h \in Keys : \/ cache[h].valid /\ cache[h].expiresIn >= 0
                       \/ lastCall[h].timed /\ lastCall[h].age < TTL
    /\ cache' = [h \in Keys |->
                   IF cache[h].valid /\ cache[h].expiresIn >= 0
                   THEN [cache[h] EXCEPT !.expiresIn = @ - 1]
                   ELSE cache[h]]
    /\ lastCall' = [h \in Keys |->
                   IF lastCall[h].timed /\ lastCall[h].age < TTL
                   THEN [lastCall[h] EXCEPT !.age = @ + 1]
                   ELSE lastCall[h]]
    /\ UNCHANGED <<roundRobin, routes, conf, hosts, started, req>>

\* ------------------------------------------------------------- ServeHTTP
\* ServeHTTP up to the call of getBackends: the ping probe is answered at
\* once; otherwise the request goes to serveWebsocket or to the reverse
\* proxy (RoundTrip -> chooseBackend), both of which start getRequestData,
\* which builds the requestData and deletes X-Debug-Router.
\* A getRequestData that leaves the header in the request.
HeaderDel_Keep(present) == present

\* req.Header.Del("X-Debug-Router"): is the header still in req.Header.
HeaderDel(present) == FALSE

ServeHTTP(p) ==
    /\ req[p].pc = "idle"
    /\ started < MaxRequests
    /\ started' = started + 1
    /\ \E h \in hosts \cup {PingHost}, upgrade \in BOOLEAN, dbg \in BOOLEAN :
          IF h = PingHost
          THEN req' = [req EXCEPT ![p] =
                  [IdleReq EXCEPT !.pc = "done", !.kind = "ping",
                        !.hdrDebug = dbg, !.hdrPresent = dbg,
                        !.rsp = [status |-> StatusOK, body |-> "OK",
                                 hasHeader |-> TRUE, debugHdrs |-> FALSE]]]
          ELSE req' = [req EXCEPT ![p] =
                  [IdleReq EXCEPT !.pc = "getBackends",
                        !.kind = IF upgrade THEN "ws" ELSE "http",
                        !.hdrDebug = dbg,
                        !.hdrPresent = HeaderDel(dbg),
                        !.host = HostKey(h),
                        !.debug = dbg]]
    /\ UNCHANGED <<cache, roundRobin, routes, conf, hosts, lastCall>>

\* ------------------------------------------------------------- getBackends
\* Expired with the deadline one second late.
Expired_Late(s) == 0 > s.expiresIn + 1

\* backendSet.Expired: time.Now().After(s.expires)
Expired(s) == 0 > s.expiresIn

\* What the caller of getBackends reads of the returned set: id, backends
\* and dead. expires is read by Expired alone.
Returned(s) == [s EXCEPT !.expiresIn = 0]

\* A getBackends that does not consult the cache.
GetBackends_NoCache(p) ==
    /\ req[p].pc = "getBackends"
    /\ req' = [req EXCEPT ![p].pc = "fetch"]
    /\ UNCHANGED <<cache, roundRobin, routes, conf, hosts, lastCall, started>>

\* getBackends, the cache lookup: an unexpired entry is returned by value.
GetBackends(p) ==
    /\ req[p].pc = "getBackends"
    /\ LET e == cache[req[p].host] IN
         IF e.valid /\ ~Expired(e)
         THEN req' = [req EXCEPT ![p].pc = "rrLookup", ![p].set = Returned(e),
                                 ![p].hit = TRUE,
                                 ![p].backendKey = e.id, ![p].backendLen = e.n]
         ELSE req' = [req EXCEPT ![p].pc = "fetch"]
    /\ UNCHANGED <<cache, roundRobin, routes, conf, hosts, lastCall, started>>

\* A failed lookup that falls back to the snapshot still stored for the host.
BackendsFail_Stale(p) ==
    /\ LET e == cache[req[p].host] IN
         IF e.valid
         THEN req' = [req EXCEPT ![p].pc = "rrLookup", ![p].set = Returned(e),
                                 ![p].backendKey = e.id, ![p].backendLen = e.n]
         ELSE req' = [req EXCEPT ![p].pc = "resolved", ![p].res = "err",
                                 ![p].err = "lookup"]
    /\ UNCHANGED cache

\* router.backend.Backends(host) failed: the error is returned, nothing is
\* installed; chooseBackend / serveWebsocket get (reqData, err).
BackendsFail(p) ==
    /\ req' = [req EXCEPT ![p].pc = "resolved", ![p].res = "err", ![p].err = "lookup"]
    /\ UNCHANGED cache

\* router.backend.Backends(host) answered with the current mapping.
BackendsOk(p) ==
    /\ req' = [req EXCEPT ![p].pc = "install",
                 ![p].set = [valid |-> TRUE, id |-> routes[req[p].host].id,
                             n |-> routes[req[p].host].n,
                             dead |-> routes[req[p].host].dead, expiresIn |-> 0]]
    /\ UNCHANGED cache

\* getBackends, the call of the routes backend.
BackendsCall(p) ==
    /\ req[p].pc = "fetch"
    /\ (BackendsFail(p) \/ BackendsOk(p))
    /\ lastCall' = [lastCall EXCEPT ![req[p].host] =
                      IF @.timed THEN [@ EXCEPT !.age = 0] ELSE @]
    /\ UNCHANGED <<roundRobin, routes, conf, hosts, started>>

\* An installation into a cache that shares the stored snapshot with the
\* tasks that hold one for the host: they see the new contents.
CacheAdd_InPlace(p) ==
    /\ req[p].pc = "install"
    /\ LET s == [req[p].set EXCEPT !.expiresIn = TTL] IN
         /\ cache' = [cache EXCEPT ![req[p].host] = s]
         /\ req' = [q \in Procs |->
                      IF q = p
                      THEN [req[p] EXCEPT !.pc = "rrLookup", !.set = Returned(s),
                                          !.backendKey = s.id, !.backendLen = s.n]
                      ELSE IF req[q].host = req[p].host /\ req[q].set.valid
                      THEN [req[q] EXCEPT !.set = Returned(s)]
                      ELSE req[q]]
    /\ UNCHANGED <<roundRobin, routes, conf, hosts, lastCall, started>>

\* getBackends, the installation: set.expires = time.Now().Add(2 s), cache.Add.
CacheAdd(p) ==
    /\ req[p].pc = "install"
    /\ LET s == [req[p].set EXCEPT !.expiresIn = TTL] IN
         /\ cache' = [cache EXCEPT ![req[p].host] = s]
         /\ req' = [req EXCEPT ![p].pc = "rrLookup", ![p].set = Returned(s),
                               ![p].backendKey = s.id, ![p].backendLen = s.n]
    /\ UNCHANGED <<roundRobin, routes, conf, hosts, lastCall, started>>


\* ---------------------------------------------------------- getRequestData
\* The counter table lookup under the read lock.
RRLookup(p) ==
    /\ req[p].pc = "rrLookup"
    /\ req' = [req EXCEPT ![p].pc =
                 IF roundRobin[req[p].host].present THEN "select" ELSE "rrInsert"]
    /\ UNCHANGED <<cache, roundRobin, routes, conf, hosts, lastCall, started>>

\* An insertion that does not look again: it installs a new counter.
RRInsert_NoRecheck(p) ==
    /\ req[p].pc = "rrInsert"
    /\ roundRobin' = [roundRobin EXCEPT ![req[p].host] = [present |-> TRUE, val |-> 0]]
    /\ req' = [req EXCEPT ![p].pc = "select"]
    /\ UNCHANGED <<cache, routes, conf, hosts, lastCall, started>>

\* The insertion under the write lock, after looking again.
RRInsert(p) ==
    /\ req[p].pc = "rrInsert"
    /\ roundRobin' =
         IF roundRobin[req[p].host].present THEN roundRobin
         ELSE [roundRobin EXCEPT ![req[p].host] = [present |-> TRUE, val |-> 0]]
    /\ req' = [req EXCEPT ![p].pc = "select"]
    /\ UNCHANGED <<cache, routes, conf, hosts, lastCall, started>>

\* The scan of the ring: from chosen, forward modulo n, until an index that
\* is not dead (the result) or back at initial (-1).
RECURSIVE ScanLoop(_, _, _, _)
ScanLoop(dead, n, initial, chosen) ==
    IF chosen \notin dead THEN chosen
    ELSE LET next == GoRem(chosen + 1, n) IN
           IF next = initial THEN -1 ELSE ScanLoop(dead, n, initial, next)

\* The ring positions the scan looks up in set.dead, in order.
RECURSIVE ScanTraceLoop(_, _, _, _)
ScanTraceLoop(dead, n, initial, chosen) ==
    IF chosen \notin dead THEN <<chosen>>
    ELSE LET next == GoRem(chosen + 1, n) IN
           IF next = initial THEN <<chosen>>
           ELSE <<chosen>> \o ScanTraceLoop(dead, n, initial, next)

ScanTrace(dead, n, initial) == ScanTraceLoop(dead, n, initial, initial)

\* A selection that takes the starting index without looking at dead.
ToUseNumber_NoSkip(dead, n, initial) == initial

\* toUseNumber after the loop.
ToUseNumber(dead, n, initial) == ScanLoop(dead, n, initial, initial)

\* initialNumber = (initialNumber - 1) % int32(reqData.backendLen), n > 0.
InitialNumber(counter, n) == GoRem(SubInt32(counter), n)

\* defer timer.Stop(): the callback of a request that has ended is not
\* followed further (CancelRequest on a finished exchange does nothing).
TimerStop(t) == IF t = "none" THEN "none" ELSE "stopped"

\* A panic of the serving goroutine: no response is written, the deferred
\* timer.Stop runs, the server closes the connection.
Panic(r) ==
    [r EXCEPT !.pc = "done", !.panicked = TRUE, !.rsp = NoRsp,
              !.timedout = 0, !.timer = TimerStop(r.timer)]

\* getRequestData from atomic.AddInt32 to its return: the modulo (a division
\* by zero when the list is empty), the scan, and the indexing of
\* set.backends (out of range for a negative index).
Select(p) ==
    /\ req[p].pc = "select"
    /\ LET h == req[p].host
           c == AddInt32(roundRobin[h].val)
           n == req[p].backendLen
           r == [req[p] EXCEPT !.counter = c]
       IN
         /\ roundRobin' = [roundRobin EXCEPT ![h].val = c]
         /\ IF n = 0
            THEN req' = [req EXCEPT ![p] = Panic([r EXCEPT !.res = "panic"])]
            ELSE LET k0 == InitialNumber(c, n)
                     t  == ToUseNumber(req[p].set.dead, n, k0)
                     r2 == [r EXCEPT !.initial = k0]
                 IN
                   IF t = -1
                   THEN req' = [req EXCEPT ![p] =
                            [r2 EXCEPT !.pc = "resolved", !.res = "err", !.err = "alldead"]]
                   ELSE IF t < 0 \/ t >= n
                   THEN req' = [req EXCEPT ![p] =
                            Panic([r2 EXCEPT !.res = "panic", !.backendIdx = t])]
                   ELSE req' = [req EXCEPT ![p] =
                            [r2 EXCEPT !.pc = "resolved", !.res = "ok",
                                       !.backendIdx = t, !.backend = BackendUrl(t)]]
    /\ UNCHANGED <<cache, routes, conf, hosts, lastCall, started>>

\* The locals of getRequestData are gone once its caller goes on; the
\* requestData keeps what was recorded from the snapshot.
Leave(r) ==
    [r EXCEPT !.set = NoSet, !.hit = FALSE, !.counter = 0, !.initial = 0]

\* ------------------------------------------------------------ chooseBackend
\* What chooseBackend logs after getRequestData: the resolution error, or
\* the parse error of the chosen URL.
ChooseErr(r) ==
    IF r.res = "err" THEN r.err
    ELSE IF ~ParseURL(r.backend).ok THEN "badurl"
    ELSE ""

\* chooseBackend: req.URL gets a scheme and a host only when resolution
\* succeeded and the URL parsed; a URL without host is used as the host.
ChooseUrlSet(r) ==
    IF ChooseErr(r) # "" THEN FALSE
    ELSE LET u == ParseURL(r.backend)
             host == IF u.host = "" THEN r.backend ELSE u.host
             scheme == IF u.host = "" THEN "http" ELSE u.scheme
         IN scheme # "" /\ host # ""

\* -------------------------------------------------------- RoundTripWithData
\* The synthetic 400: built without a Header map.
NoRouteResponse ==
    [status |-> StatusBadRequest, body |-> "no such route",
     hasHeader |-> FALSE, debugHdrs |-> FALSE]

\* The synthetic 503: Header: http.Header{}.
UnavailableResponse ==
    [status |-> StatusServiceUnavailable, body |-> "",
     hasHeader |-> TRUE, debugHdrs |-> FALSE]

\* RoundTripWithData, the end: the debug headers (rsp.Header.Set on a nil
\* map panics), the access log entry, the deferred timer.Stop; the reverse
\* proxy then writes rsp to the client.
Finish(r) ==
    IF r.debug /\ ~r.rsp.hasHeader
    THEN Panic(r)
    ELSE [r EXCEPT !.pc = "done",
                   !.rsp = [r.rsp EXCEPT !.debugHdrs = r.debug],
                   !.logged = TRUE,
                   !.timedout = 0,
                   !.timer = TimerStop(r.timer)]

\* RoundTrip: chooseBackend after getRequestData, then RoundTripWithData up
\* to the call of Transport.RoundTrip (the timer is armed before it).
RoundTripWithData(p) ==
    /\ req[p].pc = "resolved"
    /\ req[p].kind = "http"
    /\ LET r == [Leave(req[p]) EXCEPT !.errlog = ChooseErr(req[p]),
                                      !.urlSet = ChooseUrlSet(req[p])]
       IN IF ~r.urlSet
          THEN req' = [req EXCEPT ![p] = Finish([r EXCEPT !.rsp = NoRouteResponse])]
          ELSE req' = [req EXCEPT ![p] =
                         [r EXCEPT !.pc = "transport", !.upstream = r.upstream + 1,
                              !.upDebug = r.hdrPresent,
                              !.timer = IF conf.RequestTimeout > 0 THEN "armed" ELSE "none"]]
    /\ UNCHANGED <<cache, roundRobin, routes, conf, hosts, lastCall, started>>

\* A timer callback that cancels the exchange before setting the flag.
TimerFlag_CancelFirst(p) ==
    /\ req[p].pc \in {"transport", "classify", "markDead"}
    /\ req[p].timer = "armed"
    /\ req' = [req EXCEPT ![p].timer = "cancelled"]
    /\ UNCHANGED <<cache, roundRobin, routes, conf, hosts, lastCall, started>>

\* The timer callback, first statement: atomic.AddInt32(&timedout, 1).
TimerFlag(p) ==
    /\ req[p].pc \in {"transport", "classify", "markDead"}
    /\ req[p].timer = "armed"
    /\ req' = [req EXCEPT ![p].timedout = req[p].timedout + 1, ![p].timer = "flagged"]
    /\ UNCHANGED <<cache, roundRobin, routes, conf, hosts, lastCall, started>>

\* The timer callback, second statement: router.Transport.CancelRequest(req).
TimerCancel(p) ==
    /\ req[p].pc \in {"transport", "classify", "markDead"}
    /\ req[p].timer = "flagged"
    /\ req' = [req EXCEPT ![p].timer = "cancelled"]
    /\ UNCHANGED <<cache, roundRobin, routes, conf, hosts, lastCall, started>>

\* Transport.RoundTrip returns: an upstream response (any status), which
\* RoundTripWithData passes through; an error of the exchange itself; or,
\* once CancelRequest was called, the error of the cancelled exchange (which
\* may or may not be a net.Error).
TransportRoundTrip(p) ==
    /\ req[p].pc = "transport"
    /\ \/ \E st \in {200, 500} :
            req' = [req EXCEPT ![p] =
                      Finish([req[p] EXCEPT !.rt = "response", !.cause = "upstream",
                                !.rsp = [status |-> st, body |-> "upstream",
                                         hasHeader |-> TRUE, debugHdrs |-> FALSE]])]
       \/ \E e \in {"temp", "nontemp", "other"} :
            req' = [req EXCEPT ![p].pc = "classify", ![p].rt = e, ![p].cause = "upstream"]
       \/ /\ req[p].timer = "cancelled"
          /\ \E e \in {"nontemp", "other"} :
               req' = [req EXCEPT ![p].pc = "classify", ![p].rt = e, ![p].cause = "cancel"]
    /\ UNCHANGED <<cache, roundRobin, routes, conf, hosts, lastCall, started>>

\* markAsDead without the timeout check.
MarkAsDead_IgnoreTimeout(rt, isTimeout) == rt = "nontemp"

\* markAsDead: a net.Error that is not Temporary, unless the timer fired.
MarkAsDead(rt, isTimeout) == rt = "nontemp" /\ ~isTimeout

\* isTimeout := atomic.LoadInt32(&timedout) == int32(1)
IsTimeout(timedout) == timedout = 1

\* RoundTripWithData after Transport.RoundTrip returned an error: it is
\* classified and logged, and answered with 503 (after MarkDead, when the
\* backend is to be marked).
Classify(p) ==
    /\ req[p].pc = "classify"
    /\ LET t == IsTimeout(req[p].timedout)
           m == MarkAsDead(req[p].rt, t)
           r == [req[p] EXCEPT !.isTimeout = t, !.markAsDead = m,
                   !.errlog = IF t THEN "timeout"
                              ELSE IF m THEN "backend *DEAD*" ELSE "backend"]
       IN IF m /\ ~conf.markingDisabled
          THEN req' = [req EXCEPT ![p] = [r EXCEPT !.pc = "markDead"]]
          ELSE req' = [req EXCEPT ![p] = Finish([r EXCEPT !.rsp = UnavailableResponse])]
    /\ UNCHANGED <<cache, roundRobin, routes, conf, hosts, lastCall, started>>

\* The routes backend records index i of a mapping as dead.
RoutesMarkDead(m, i) ==
    IF i \in 0..(m.n - 1) /\ i \notin m.dead
    THEN [m EXCEPT !.dead = m.dead \cup {i}, !.id = m.id + 1]
    ELSE m

\* router.backend.MarkDead(host, backend, backendIdx, backendLen, DeadBackendTTL);
\* the call may fail, which is only logged. Then the 503.
MarkDead(p) ==
    /\ req[p].pc = "markDead"
    /\ req' = [req EXCEPT ![p] =
                 Finish([req[p] EXCEPT !.marks = req[p].marks + 1,
                           !.markArgs = <<req[p].host, req[p].backend, req[p].backendIdx,
                                          req[p].backendLen, conf.DeadBackendTTL>>,
                           !.rsp = UnavailableResponse])]
    /\ \/ routes' = [routes EXCEPT ![req[p].host] = RoutesMarkDead(@, req[p].backendIdx)]
       \/ UNCHANGED routes
    /\ UNCHANGED <<cache, roundRobin, conf, hosts, lastCall, started>>

\* ----------------------------------------------------------- serveWebsocket
\* serveWebsocket returned an error: ServeHTTP logs it and calls
\* http.Error(rw, "", 502). On a hijacked connection the ResponseWriter
\* refuses the write and the client gets nothing.
WsFail(r, e) ==
    IF r.hijacked
    THEN [r EXCEPT !.pc = "done", !.errlog = e, !.rwAfterHijack = TRUE]
    ELSE [r EXCEPT !.pc = "done", !.errlog = e,
             !.rsp = [status |-> StatusBadGateway, body |-> "",
                      hasHeader |-> TRUE, debugHdrs |-> FALSE]]

\* serveWebsocket after getRequestData up to the copy loops: the resolution
\* error, the parse of the backend URL, the dial of url.Host (an empty
\* address cannot be dialled), the hijack, the write of the request with
\* the headers it has then (w), and the start of the two copy loops.
WsDial(p) ==
    /\ req[p].pc = "resolved"
    /\ req[p].kind = "ws"
    /\ LET r == Leave(req[p])
           w == [r EXCEPT !.hijacked = TRUE, !.upDebug = r.hdrPresent]
       IN
       IF req[p].res = "err"
       THEN req' = [req EXCEPT ![p] = WsFail(r, req[p].err)]
       ELSE IF ~ParseURL(r.backend).ok
       THEN req' = [req EXCEPT ![p] = WsFail(r, "badurl")]
       ELSE \/ \E e \in {"dial", "not a hijacker", "hijack"} :
                 req' = [req EXCEPT ![p] = WsFail(r, e)]
            \/ /\ ParseURL(r.backend).host # ""
               /\ \/ req' = [req EXCEPT ![p] = WsFail(w, "write")]
                  \/ req' = [req EXCEPT ![p] = [w EXCEPT !.pc = "wsSplice", !.cp = 2]]
    /\ UNCHANGED <<cache, roundRobin, routes, conf, hosts, lastCall, started>>

\* errc := make(chan error, 2)
ErrcCap == 2

\* An errc without buffer: a send finds no room.
ErrcHasRoom_Unbuffered(n) == FALSE

\* A send on errc does not block while fewer than ErrcCap reports are
\* buffered.
ErrcHasRoom(n) == n < ErrcCap

\* A copy loop: io.Copy returns (EOF or an error of either connection while
\* serveWebsocket waits; the error of the closed connections after it has
\* returned) and the loop reports on errc, which takes the report when it
\* has room; otherwise the loop blocks in the send.
CopyEnd(p) ==
    /\ req[p].pc \in {"wsSplice", "done"}
    /\ req[p].cp > 0
    /\ req' = [req EXCEPT ![p].cp = @ - 1,
                          ![p].errc = IF ErrcHasRoom(req[p].errc) THEN @ + 1 ELSE @,
                          ![p].snd = IF ErrcHasRoom(req[p].errc) THEN @ ELSE @ + 1]
    /\ UNCHANGED <<cache, roundRobin, routes, conf, hosts, lastCall, started>>

\* <-errc: serveWebsocket takes the first report (from the buffer, or from a
\* loop blocked in the send) and returns nil; the deferred Close calls close
\* the client and the upstream connection.
WsSplice(p) ==
    /\ req[p].pc = "wsSplice"
    /\ req[p].errc + req[p].snd > 0
    /\ req' = [req EXCEPT ![p].pc = "done",
                          ![p].errc = IF req[p].errc > 0 /\ req[p].snd = 0 THEN @ - 1 ELSE @,
                          ![p].snd = IF req[p].snd > 0 THEN @ - 1 ELSE @]
    /\ UNCHANGED <<cache, roundRobin, routes, conf, hosts, lastCall, started>>

\* ServeHTTP has returned and the copy loops it left behind have ended; the
\* task is free for the next request.
Return(p) ==
    /\ req[p].pc = "done"
    /\ req[p].cp = 0 /\ req[p].snd = 0
    /\ req' = [req EXCEPT ![p] = IdleReq]
    /\ UNCHANGED <<cache, roundRobin, routes, conf, hosts, lastCall, started>>

\* -------------------------------------------------------------------- Next
Next ==
    \/ Tick
    \/ \E p \in Procs :
         \/ ServeHTTP(p)
         \/ GetBackends(p)
         \/ BackendsCall(p)
         \/ CacheAdd(p)
         \/ RRLookup(p)
         \/ RRInsert(p)
         \/ Select(p)
         \/ RoundTripWithData(p)
         \/ TimerFlag(p)
         \/ TimerCancel(p)
         \/ TransportRoundTrip(p)
         \/ Classify(p)
         \/ MarkDead(p)
         \/ WsDial(p)
         \/ CopyEnd(p)
         \/ WsSplice(p)
         \/ Return(p)

Spec == Init /\ [][Next]_vars

SpecWrap == InitWrap /\ [][Next]_vars

SpecCalls == InitCalls /\ [][Next]_vars

SpecHosts == InitHosts /\ [][Next]_vars

\* A copy loop after serveWebsocket has returned: both connections are
\* closed, so its io.Copy returns.
CopyUnblock(p) == req[p].pc = "done" /\ CopyEnd(p)

\* The scheduler runs a copy loop whose io.Copy can return.
SpecWs == InitWs /\ [][Next]_vars /\ \A p \in Procs : WF_vars(CopyUnblock(p))

\* ------------------------------------------------- the shared surroundings
\* Another proxy on the same routes backend marks an index dead (followed
\* for the first index of a mapping to be marked).
ExternalMarkDead ==
    /\ \E h \in { HostKey(g) : g \in hosts }, i \in 0..(MaxBackends - 1) :
          /\ i \in 0..(routes[h].n - 1) /\ routes[h].dead = {}
          /\ routes' = [routes EXCEPT ![h] = RoutesMarkDead(@, i)]
    /\ UNCHANGED <<cache, roundRobin, conf, hosts, lastCall, started, req>>

\* The LRU (capacity 100) drops the entry of a host to make room for the
\* entry of a host outside Keys.
Evict ==
    /\ \E h \in Keys :
          /\ cache[h].valid
          /\ cache' = [cache EXCEPT ![h] = NoSet]
    /\ UNCHANGED <<roundRobin, routes, conf, hosts, lastCall, started, req>>

NextShared == Next \/ ExternalMarkDead \/ Evict

\* The proxy with a request timeout and marking enabled, one of several on
\* the routes backend and with more hosts than the cache holds.
InitShared ==
    /\ cache = [h \in Keys |-> NoSet]
    /\ routes = [h \in Keys |-> AllLive]
    /\ started = 0
    /\ req = [p \in Procs |-> IdleReq]
    /\ conf = [RequestTimeout |-> 100, markingDisabled |-> FALSE,
               DeadBackendTTL |-> DefaultDeadBackendTTL]
    /\ hosts = OneHost
    /\ lastCall = [h \in Keys |-> Untimed]
    /\ roundRobin = [h \in Keys |-> NoCounter]

SpecShared == InitShared /\ [][NextShared]_vars


\* ================================================================== claims
\* getRequestData has returned (or panicked) for task p.
Resolved(p) == req[p].res # "none" /\ req[p].set.valid

\* The snapshot of task p has a backend that is not dead.
SomeLive(p) == \E i \in 0..(req[p].set.n - 1) : i \notin req[p].set.dead

\* The first index not in dead, scanning the ring 0..n-1 forward from k0.
RingChoice(dead, n, k0) ==
    LET steps == { d \in 0..(n - 1) : ((k0 + d) % n) \notin dead } IN
      (k0 + (CHOOSE d \in steps : \A e \in steps : d <= e)) % n

\* C1: whenever getRequestData succeeds, the index it returns is not in the
\* dead set of the snapshot it read, whatever the value of the counter.
C1_ChosenNotDead ==
    \A p \in Procs :
        (Resolved(p) /\ req[p].res = "ok") =>
            req[p].backendIdx \notin req[p].set.dead

\* C1 witness: a successful resolution whose starting index was dead.
C1_Witness ==
    \E p \in Procs :
        /\ Resolved(p) /\ req[p].res = "ok"
        /\ req[p].initial \in req[p].set.dead

\* C2: resolutions of a snapshot with a live backend get distinct successive
\* counter values, and each chooses the index the dead-skipping scan gives
\* for its counter value modulo N, an index of [0,N).
C2_RoundRobinMultiset ==
    /\ \A p \in Procs :
          (Resolved(p) /\ req[p].set.n >= 1 /\ SomeLive(p)) =>
             /\ req[p].res = "ok"
             /\ req[p].backendIdx \in 0..(req[p].set.n - 1)
             /\ req[p].backendIdx =
                   RingChoice(req[p].set.dead, req[p].set.n,
                              SubInt32(req[p].counter) % req[p].set.n)
    /\ \A p, q \in Procs :
          (p # q /\ Resolved(p) /\ Resolved(q) /\ req[p].host = req[q].host) =>
             req[p].counter # req[q].counter

\* C3: with an empty backend list resolution fails with "all backends are
\* dead" and the request is answered.
C3_EmptyListFails ==
    \A p \in Procs :
        (Resolved(p) /\ req[p].set.n = 0) =>
            /\ req[p].res = "err" /\ req[p].err = "alldead"
            /\ ~req[p].panicked

\* C4: for every counter value, the wrapped negative ones included, the
\* starting index is in [0,N) and a live index of [0,N) is returned when the
\* snapshot has one.
C4_WrapHarmless ==
    \A p \in Procs :
        (Resolved(p) /\ req[p].set.n >= 1) =>
            /\ req[p].initial \in 0..(req[p].set.n - 1)
            /\ SomeLive(p) =>
                 /\ req[p].res = "ok"
                 /\ req[p].backendIdx \in (0..(req[p].set.n - 1)) \ req[p].set.dead

\* C5: getBackends returns the cached entry only while its deadline, 2 s
\* after its installation, has not passed (the entry is at most 2 s old);
\* otherwise it goes to the routes backend, and what it installs expires
\* 2 s later.
C5_NoStaleSnapshot ==
    [][\A p \in Procs :
          /\ (req[p].pc = "getBackends" /\ req'[p].pc # "getBackends") =>
                LET e == cache[req[p].host] IN
                  IF req'[p].hit
                  THEN /\ e.valid
                       /\ e.expiresIn >= 0
                       /\ TTL - e.expiresIn <= TTL
                       /\ req'[p].set = Returned(e)
                  ELSE /\ req'[p].pc = "fetch"
                       /\ req'[p].set = NoSet
          /\ (req[p].pc = "install" /\ req'[p].pc # "install") =>
                /\ cache'[req[p].host].valid
                /\ cache'[req[p].host].expiresIn = TTL
                /\ req'[p].set = Returned(cache'[req[p].host])]_vars

\* C5 witness: a task was handed the cached snapshot.
C5_Witness ==
    \E p \in Procs : req[p].pc = "rrLookup" /\ req[p].hit

\* C6: a failed Backends call returns an error, installs nothing and does
\* not return the expired snapshot; the cache is unchanged, and a request
\* that finds no unexpired entry calls Backends.
C6_FailedLookupNotCached ==
    [][\A p \in Procs :
          /\ (req[p].pc = "fetch" /\ req'[p].pc # "fetch") =>
                /\ cache' = cache
                /\ \/ /\ req'[p].pc = "install"
                      /\ req'[p].set.valid
                   \/ /\ req'[p].pc = "resolved"
                      /\ req'[p].res = "err" /\ req'[p].err = "lookup"
                      /\ req'[p].set = NoSet
          /\ ( /\ req[p].pc = "getBackends" /\ req'[p].pc # "getBackends"
               /\ ~(cache[req[p].host].valid /\ cache[req[p].host].expiresIn >= 0) ) =>
                req'[p].pc = "fetch"]_vars

\* C6 witness: a lookup failed while an expired snapshot was stored.
C6_Witness ==
    \E p \in Procs :
        /\ req[p].pc = "resolved" /\ req[p].err = "lookup"
        /\ cache[req[p].host].valid /\ cache[req[p].host].expiresIn < 0

\* C7: MarkDead is called at most once per request, and only for an HTTP
\* forward whose upstream exchange returned a non-temporary network error
\* with the timed-out flag not set when it was classified, with marking
\* enabled; never without an upstream call, for a response, or on the
\* WebSocket path.
C7_MarkDeadOnlyNonTemporary ==
    \A p \in Procs :
        /\ req[p].marks <= 1
        /\ req[p].marks = 1 =>
              /\ req[p].kind = "http"
              /\ req[p].urlSet /\ req[p].upstream = 1
              /\ req[p].rt = "nontemp"
              /\ ~req[p].isTimeout
              /\ ~conf.markingDisabled
        /\ req[p].pc = "markDead" =>
              /\ req[p].kind = "http" /\ req[p].rt = "nontemp" /\ ~req[p].isTimeout

\* C7 witness: a request for which MarkDead was called.
C7_Witness ==
    \E p \in Procs : req[p].marks = 1 /\ req[p].pc = "done"

\* C8: with RequestTimeout > 0, an exchange that failed because the timer
\* cancelled it is classified with the timed-out flag set: no MarkDead, a
\* 503 with empty body, logged as timed out.
C8_TimeoutNotMarked ==
    \A p \in Procs :
        (conf.RequestTimeout > 0 /\ req[p].cause = "cancel") =>
            /\ req[p].pc \in {"classify", "done"}
            /\ req[p].pc = "classify" => req[p].timedout = 1
            /\ req[p].pc = "done" =>
                  /\ req[p].isTimeout
                  /\ req[p].marks = 0
                  /\ req[p].errlog = "timeout"
                  /\ req[p].rsp.status = StatusServiceUnavailable
                  /\ req[p].rsp.body = ""

\* C8 witness: a cancelled exchange whose error was a non-temporary network
\* error has been answered.
C8_Witness ==
    \E p \in Procs :
        req[p].pc = "done" /\ req[p].cause = "cancel" /\ req[p].rt = "nontemp"

\* C9: a routed request is answered with the three debug headers exactly
\* when it carried X-Debug-Router, the synthetic 400, 503 and 502 included.
C9_DebugHeadersIff ==
    \A p \in Procs :
        ( /\ req[p].pc = "done"
          /\ req[p].kind \in {"http", "ws"}
          /\ req[p].res \in {"ok", "err"}
          /\ ~req[p].hijacked ) =>
            /\ req[p].rsp.status # 0
            /\ req[p].rsp.debugHdrs <=> req[p].hdrDebug

\* C10: a request whose URL has no scheme or host after chooseBackend is
\* answered 400 "no such route", with no upstream call, no timer and no
\* MarkDead.
C10_NoRouteIs400 ==
    \A p \in Procs :
        ( /\ req[p].pc = "done"
          /\ req[p].kind = "http"
          /\ req[p].res \in {"ok", "err"}
          /\ ~req[p].urlSet ) =>
            /\ req[p].rsp.status = StatusBadRequest
            /\ req[p].rsp.body = "no such route"
            /\ req[p].upstream = 0
            /\ req[p].timer = "none"
            /\ req[p].marks = 0

\* C11: every failed request (failed lookup, all backends dead, empty list,
\* transport error, timeout, WebSocket failure before the hijack, failed
\* MarkDead), with or without the debug flag, is answered with a synthetic
\* 400, 502 or 503 and logged, and its task does not panic.
C11_EveryFailureAnswered ==
    \A p \in Procs :
        ( /\ req[p].pc = "done"
          /\ req[p].kind \in {"http", "ws"}
          /\ ~req[p].hijacked
          /\ \/ req[p].res \in {"err", "panic"}
             \/ req[p].rt \in {"temp", "nontemp", "other"}
             \/ req[p].kind = "ws" ) =>
            /\ ~req[p].panicked
            /\ req[p].rsp.status \in
                  {StatusBadRequest, StatusBadGateway, StatusServiceUnavailable}
            /\ req[p].logged \/ req[p].errlog # ""

\* C12: what goes upstream, on the HTTP forward and on the WebSocket path,
\* never has X-Debug-Router: the header is deleted, and its presence kept in
\* the debug flag, before the request is sent or written.
C12_DebugHeaderNotPropagated ==
    \A p \in Procs :
        /\ ~req[p].upDebug
        /\ req[p].kind \in {"http", "ws"} =>
              /\ ~req[p].hdrPresent
              /\ req[p].debug = req[p].hdrDebug

\* C12 witness: requests that carried the header have gone upstream, one
\* forwarded, one on a WebSocket.
C12_Witness ==
    \E p, q \in Procs :
        /\ req[p].kind = "http" /\ req[p].hdrDebug /\ req[p].upstream = 1
        /\ req[q].kind = "ws" /\ req[q].hdrDebug /\ req[q].pc = "wsSplice"

\* C13: once MarkDead has recorded an index of a host as dead in the routes
\* backend (its mapping has a new id) and a snapshot with dead indices i has
\* been installed for the host, no resolution for the host returns such an
\* i; with two backends and dead = {0} every resolution returns 1.
C13_DeadIndexSkippedAfterRefresh ==
    [][\A p \in Procs :
          LET h == req[p].host
              marked == routes[h].dead \cap cache[h].dead
          IN ( /\ req[p].pc = "select" /\ req'[p].pc # "select"
               /\ routes[h].id > 1
               /\ cache[h].valid /\ marked # {} ) =>
                /\ ~(req'[p].res = "ok" /\ req'[p].backendIdx \in marked)
                /\ (routes[h].n = 2 /\ routes[h].dead = {0}) =>
                      (req'[p].res = "ok" /\ req'[p].backendIdx = 1)]_vars

\* C14: two successive Backends calls for one host are at least TTL seconds
\* apart, in every interleaving.
C14_CallsTwoSecondsApart ==
    [][\A p \in Procs :
          ( /\ req[p].pc = "fetch" /\ req'[p].pc # "fetch"
            /\ lastCall[req[p].host].timed ) =>
              lastCall[req[p].host].age >= TTL]_vars

\* C14 as amended: a task comes to the Backends call only from a cache
\* lookup that found no unexpired entry for the host, it calls once, and a
\* lookup that finds an unexpired entry (installed at most TTL seconds
\* earlier) is answered from the cache with no call.
C14_CallOnlyOnMiss ==
    [][\A p \in Procs :
          LET e == cache[req[p].host] IN
            /\ (req'[p].pc = "fetch" /\ req[p].pc # "fetch") =>
                  /\ req[p].pc = "getBackends"
                  /\ ~(e.valid /\ e.expiresIn >= 0)
            /\ (req[p].pc = "fetch" /\ req'[p].pc # "fetch") =>
                  /\ req'[p].pc \in {"install", "resolved"}
                  /\ lastCall'[req[p].host].age = 0
            /\ ( /\ req[p].pc = "getBackends" /\ req'[p].pc # "getBackends"
                 /\ e.valid /\ e.expiresIn >= 0 ) =>
                  /\ req'[p].pc = "rrLookup"
                  /\ lastCall' = lastCall]_vars

\* C14 witness: a task was answered from the cache less than TTL seconds
\* after the Backends call for its host.
C14_Witness ==
    \E p \in Procs :
        /\ req[p].pc = "rrLookup" /\ req[p].hit
        /\ lastCall[req[p].host].timed /\ lastCall[req[p].host].age < TTL

\* The name in lower case.
ToLower(name) == IF name = "App.Example" THEN "app.example" ELSE name

\* C15: requests whose Host values differ only by a port suffix or by
\* letter case have the same host key, and so share one cache entry and one
\* round-robin counter.
C15_HostKeyIgnoresPortAndCase ==
    (\A g, h \in hosts : ToLower(g.name) = ToLower(h.name)) =>
        /\ \A p, q \in Procs :
              (req[p].kind \in {"http", "ws"} /\ req[q].kind \in {"http", "ws"}) =>
                  req[p].host = req[q].host
        /\ Cardinality({ k \in Keys : cache[k].valid }) <= 1
        /\ Cardinality({ k \in Keys : roundRobin[k].present }) <= 1

\* C16: with every index of a snapshot of N >= 1 backends dead, the scan
\* looks at the N ring positions k0, k0+1, ... (modulo N) once each, k0 in
\* [0,N), and getRequestData fails with "all backends are dead".
C16_AllDeadScansRingOnce ==
    \A p \in Procs :
        ( /\ Resolved(p)
          /\ req[p].set.n >= 1
          /\ req[p].set.dead = 0..(req[p].set.n - 1) ) =>
            /\ req[p].res = "err" /\ req[p].err = "alldead"
            /\ ~req[p].panicked
            /\ req[p].initial \in 0..(req[p].set.n - 1)
            /\ ScanTrace(req[p].set.dead, req[p].set.n, req[p].initial) =
                  [i \in 1..req[p].set.n |-> (req[p].initial + i - 1) % req[p].set.n]

\* C17: a host's counter, once created (with value 0, by a task that found
\* none), is never removed or replaced, and changes only by the atomic
\* increment of a resolution, which adds exactly one and hands the new value
\* to the task: no increment is lost, so after K resolutions it equals K.
C17_OneCounterPerHost ==
    [][\A h \in Keys :
          LET sel == { p \in Procs : /\ req[p].host = h
                                     /\ req[p].pc = "select"
                                     /\ req'[p].pc # "select" }
          IN /\ roundRobin[h].present => roundRobin'[h].present
             /\ IF sel # {}
                THEN /\ roundRobin[h].present
                     /\ roundRobin'[h].val = AddInt32(roundRobin[h].val)
                     /\ \A p \in sel : req'[p].counter = roundRobin'[h].val
                ELSE IF roundRobin[h].present
                THEN roundRobin'[h] = roundRobin[h]
                ELSE roundRobin'[h].present =>
                       /\ roundRobin'[h].val = 0
                       /\ \E p \in Procs : req[p].host = h /\ req[p].pc = "rrInsert"]_vars

\* C17 witness: a task that found no counter under the read lock is about to
\* take the write lock while another task has created the counter and
\* incremented it.
C17_Witness ==
    \E p \in Procs :
        /\ req[p].pc = "rrInsert"
        /\ roundRobin[req[p].host].present
        /\ roundRobin[req[p].host].val >= 1

\* C20: once the client connection is hijacked nothing is written through
\* the ResponseWriter; the 502 is written only for failures before the
\* hijack.
C20_NoResponseAfterHijack ==
    \A p \in Procs :
        /\ ~req[p].rwAfterHijack
        /\ (req[p].kind = "ws" /\ req[p].rsp.status = StatusBadGateway) =>
              ~req[p].hijacked

\* C18: the two copy loops start once the request is written; a report never
\* finds errc full; serveWebsocket can return as soon as one loop has
\* reported, and returns with at most one loop still copying; that loop,
\* its connections closed, ends too.
C18_CopyLoopsEnd ==
    /\ [](\A p \in Procs :
            /\ req[p].snd = 0
            /\ req[p].errc <= ErrcCap
            /\ req[p].pc = "wsSplice" =>
                  /\ req[p].cp + req[p].errc = 2
                  /\ req[p].errc >= 1 => ENABLED WsSplice(p)
                  /\ req[p].errc = 0 => ~ENABLED WsSplice(p)
            /\ (req[p].pc = "done" /\ req[p].cp > 0) =>
                  (req[p].cp = 1 /\ ENABLED CopyEnd(p)))
    /\ \A p \in Procs : (req[p].pc = "done" /\ req[p].cp > 0) ~> (req[p].cp = 0)

\* C18 witness: serveWebsocket has returned while one loop is still copying.
C18_Witness ==
    \E p \in Procs : req[p].pc = "done" /\ req[p].cp = 1

\* What a task holds of its snapshot, and what its requestData records.
Snap(r) == <<r.host, r.set, r.backendKey, r.backendLen>>
Rec(r) == <<r.host, r.backendKey, r.backendLen, r.backendIdx, r.backend>>

\* C19: the id, size, index and URL a request records come from the one
\* snapshot it got from getBackends; no step of another task (a refresh, an
\* eviction, a change of the mapping) changes that snapshot or the record,
\* and the record stays as it is to the end of the request; MarkDead gets
\* (host, backends[index], index, N, 30) with 0 <= index < N.
C19_RecordFromOneSnapshot ==
    [][\A p \in Procs :
          /\ (req'[p].pc = "resolved" /\ req'[p].res = "ok") =>
                /\ req'[p].backendKey = req'[p].set.id
                /\ req'[p].backendLen = req'[p].set.n
                /\ req'[p].backendIdx \in 0..(req'[p].set.n - 1)
                /\ req'[p].backend = BackendUrl(req'[p].backendIdx)
          /\ (req[p].pc \in {"rrLookup", "rrInsert", "select"} /\ req'[p].pc # "done") =>
                Snap(req'[p]) = Snap(req[p])
          /\ (req[p].pc \in {"resolved", "transport", "classify", "markDead"}) =>
                Rec(req'[p]) = Rec(req[p])
          /\ req'[p].marks = 1 =>
                /\ req'[p].markArgs =
                      <<req'[p].host, BackendUrl(req'[p].backendIdx), req'[p].backendIdx,
                        req'[p].backendLen, DefaultDeadBackendTTL>>
                /\ req'[p].backendIdx \in 0..(req'[p].backendLen - 1)]_vars

\* C19 witness: MarkDead was called for a request whose snapshot is no
\* longer the one in the cache.
C19_Witness ==
    \E p \in Procs :
        /\ req[p].marks = 1
        /\ cache[req[p].host].valid
        /\ cache[req[p].host].id # req[p].backendKey

====
